---- MODULE Spec2Model ----
(***************************************************************************)
(* A model of the fairserve simulator: the continuous-batching engine      *)
(* (src/vllm_engine.py), the fairness schedulers (src/scheduler.py), the   *)
(* overload throttle (src/oit.py) and the orchestrator (src/simulator.py). *)
(*                                                                         *)
(* Conventions                                                             *)
(*   - An Optional value is a sequence of length 0 (None) or 1 (a value).  *)
(*   - Python dicts are sequences of keys in insertion order plus a map.   *)
(*   - Real-valued times are integers in units of 1e-5 seconds, so the     *)
(*     engine's cost polynomials are exact.                                *)
(*   - Simulator._admit_to_engine hands the scheduler an engine snapshot   *)
(*     and max_to_release, while src/scheduler.py takes (kv_tokens,        *)
(*     kv_capacity, max_batch); the model binds kv_tokens to               *)
(*     snapshot.kv_tokens_used, kv_capacity to snapshot.kv_tokens_capacity *)
(*     and max_batch to max_to_release, and runs the scheduler's code.     *)
(***************************************************************************)
EXTENDS Integers, Sequences, FiniteSets, TLC

VARIABLES
    requests,      \* request_id -> Request (models.py), ids dense from 0
    interaction,   \* interaction_id -> Interaction (models.py), ids dense from 0
    engine,        \* the VLLMEngineSimulator object
    events,        \* the list returned by the last engine.step()
    sim,           \* the Simulator object (its own fields)
    scheduler,     \* the scheduler object (kind, weights, counters)
    oit,           \* the OIT object, or None
    pc,            \* "idle": between calls; "running": inside Simulator.run()
    runs,          \* history: the number of calls of Simulator.run() so far
    submitted,     \* history: request ids in the order passed to engine.submit_request
    last_select,   \* history: the arguments and result of the last select_next_requests
    hook_calls,    \* history: the on_prefill_added and on_decode_iteration calls since
                   \* the last Simulator.step() began, in order
    history        \* history: event_log, the non-empty event lists engine.step() has
                   \* returned; prefill_added and decode_served, the request ids
                   \* _process_events has passed to the two accounting hooks

vars == <<requests, interaction, engine, events, sim, scheduler, oit, pc, runs, submitted,
          last_select, hook_calls, history>>

----------------------------------------------------------------------------
(* Bounds of the model *)

NumRequests == 3
MaxKv == 4
MaxBatchTokens == 2
MaxTime == 8
MaxRuns == 2
MaxHookCalls == 2

(* Program constants: the engine's defaults, times in 1e-5 s *)
DefaultChunkSize == 256
DefaultKvCapacity == 20000
A_PREFILL == 10
B_PREFILL == 1000
C_PREFILL == 10000
A_DECODE == 5
B_DECODE == 5000
MIN_ADVANCE == 10
TimeUnitsPerSecond == 100000

----------------------------------------------------------------------------
(* Generic helpers *)

None == << >>
Some(x) == <<x>>
IsNone(o) == o = << >>
Val(o) == o[1]

Min2(a, b) == IF a <= b THEN a ELSE b
Max2(a, b) == IF a >= b THEN a ELSE b
Min3(a, b, c) == Min2(a, Min2(b, c))

Range(s) == {s[i] : i \in 1..Len(s)}

(* Bind(x, F) is F(x): a local name for an intermediate result *)
Bind(x, F(_)) == F(x)

RECURSIVE RemoveFirst(_, _)
RemoveFirst(s, x) ==
    IF s = << >> THEN << >>
    ELSE IF Head(s) = x THEN Tail(s)
    ELSE <<Head(s)>> \o RemoveFirst(Tail(s), x)

----------------------------------------------------------------------------
(* models.py *)

USER_PROMPT == 0
AGENT_1 == 1
AGENT_2 == 2
FINAL == 3

Users == {"a", "b"}

Request(user, app, interaction_id, stage, input_tokens, system_tokens, output_tokens_target, arrival_time) ==
    [user |-> user, application |-> app, interaction_id |-> interaction_id,
     stage |-> stage, input_tokens |-> input_tokens, system_tokens |-> system_tokens,
     output_tokens_target |-> output_tokens_target, arrival_time |-> arrival_time,
     remaining_decode |-> output_tokens_target,
     start_time |-> None, completion_time |-> None, throttled |-> FALSE]

PromptTokens(req) == req.input_tokens + req.system_tokens

----------------------------------------------------------------------------
(* vllm_engine.py *)

VLLMEngineSimulator(max_kv_tokens, max_num_batched_tokens, chunk_size) ==
    [max_kv_tokens |-> max_kv_tokens,
     max_num_batched_tokens |-> max_num_batched_tokens,
     chunk_size |-> chunk_size,
     time |-> 0,
     pending_prefill |-> << >>,
     active_prefill |-> None,
     active_decodes |-> << >>,
     completed |-> << >>,
     kv_tokens |-> 0]

submit_request(e, r) == [e EXCEPT !.pending_prefill = Append(@, r)]

has_pending_work(e) ==
    e.pending_prefill # << >> \/ ~IsNone(e.active_prefill) \/ e.active_decodes # << >>

prefill_time(chunk_len) == A_PREFILL * chunk_len * chunk_len + B_PREFILL * chunk_len + C_PREFILL

decode_time(e, batch_tokens) == A_DECODE * e.kv_tokens * batch_tokens + B_DECODE

(* The result of a call that returns None *)
NoPrefillResult(e, reqs) ==
    [started |-> FALSE, engine |-> e, requests |-> reqs,
     chunk_len |-> 0, events |-> << >>, cost |-> 0]

(* A prefill start that skips a head it cannot start and takes the first    *)
(* pending request that fits                                                *)
PopFirstFitting(e, reqs, token_budget) ==
    IF IsNone(e.active_prefill) /\ e.pending_prefill # << >>
    THEN LET fits == {i \in 1..Len(e.pending_prefill) :
                        /\ Min3(e.chunk_size, PromptTokens(reqs[e.pending_prefill[i]]), token_budget) > 0
                        /\ e.kv_tokens + PromptTokens(reqs[e.pending_prefill[i]]) <= e.max_kv_tokens}
         IN  IF fits = {} THEN [blocked |-> TRUE, engine |-> e]
             ELSE LET i == CHOOSE i \in fits : \A j \in fits : i <= j
                      candidate == e.pending_prefill[i]
                  IN  [blocked |-> FALSE,
                       engine |-> [e EXCEPT !.pending_prefill = RemoveFirst(@, candidate),
                                            !.active_prefill =
                                                Some([request |-> candidate,
                                                      remaining |-> PromptTokens(reqs[candidate]),
                                                      chunk_id |-> 0])]]
    ELSE [blocked |-> FALSE, engine |-> e]

(* lines 100-113: pop the head of pending_prefill into active_prefill.       *)
(* blocked: the call returns None at line 105 or 107.                       *)
PopCandidate(e, reqs, token_budget) ==
    IF IsNone(e.active_prefill) /\ e.pending_prefill # << >>
    THEN LET candidate == Head(e.pending_prefill)
             remaining == PromptTokens(reqs[candidate])
             chunk_len == Min3(e.chunk_size, remaining, token_budget)
         IN  IF chunk_len <= 0 THEN [blocked |-> TRUE, engine |-> e]
             ELSE IF e.kv_tokens + remaining > e.max_kv_tokens
             THEN [blocked |-> TRUE, engine |-> e]
             ELSE [blocked |-> FALSE,
                   engine |-> [e EXCEPT !.pending_prefill = Tail(@),
                                        !.active_prefill = Some([request |-> candidate,
                                                                 remaining |-> remaining,
                                                                 chunk_id |-> 0])]]
    ELSE [blocked |-> FALSE, engine |-> e]

(* lines 114-146: run one chunk of the active prefill *)
RunChunk(e, reqs, token_budget) ==
    IF IsNone(e.active_prefill) THEN NoPrefillResult(e, reqs)
    ELSE LET ap == Val(e.active_prefill)
             chunk_len == Min3(e.chunk_size, ap.remaining, token_budget)
             req == ap.request
             start_event == [event_type |-> "PREFILL_CHUNK_STARTED", time |-> e.time,
                             request_id |-> req, chunk_id |-> ap.chunk_id,
                             chunk_len |-> chunk_len]
             finish_time == prefill_time(chunk_len)
             finish_event == [event_type |-> "PREFILL_CHUNK_FINISHED",
                              time |-> e.time + finish_time,
                              request_id |-> req, chunk_id |-> ap.chunk_id,
                              chunk_len |-> chunk_len]
             remaining == ap.remaining - chunk_len
             reqs2 == IF IsNone(reqs[req].start_time)
                      THEN [reqs EXCEPT ![req].start_time = Some(e.time)]
                      ELSE reqs
             e2 == [e EXCEPT !.kv_tokens = @ + chunk_len,
                             !.active_prefill =
                                 IF remaining <= 0 THEN None
                                 ELSE Some([request |-> req, remaining |-> remaining,
                                            chunk_id |-> ap.chunk_id + 1]),
                             !.active_decodes =
                                 IF remaining <= 0 THEN Append(@, req) ELSE @]
         IN  IF chunk_len <= 0 THEN NoPrefillResult(e, reqs)
             ELSE [started |-> TRUE, engine |-> e2, requests |-> reqs2,
                   chunk_len |-> chunk_len,
                   events |-> <<start_event, finish_event>>, cost |-> finish_time]

(* A prefill phase that keeps starting chunks while budget is left *)
PrefillWhileBudget(e, reqs, token_budget) ==
    Bind(PopCandidate(e, reqs, token_budget), LAMBDA p :
        IF p.blocked THEN NoPrefillResult(e, reqs)
        ELSE Bind(RunChunk(p.engine, reqs, token_budget), LAMBDA r1 :
                 IF r1.started /\ token_budget - r1.chunk_len > 0
                 THEN Bind(PopCandidate(r1.engine, r1.requests, token_budget - r1.chunk_len),
                           LAMBDA p2 :
                          IF p2.blocked THEN r1
                          ELSE Bind(RunChunk(p2.engine, r1.requests, token_budget - r1.chunk_len),
                                    LAMBDA r2 :
                                   IF r2.started
                                   THEN [r2 EXCEPT !.chunk_len = r1.chunk_len + @,
                                                   !.events = r1.events \o @,
                                                   !.cost = r1.cost + @]
                                   ELSE r1))
                 ELSE r1))

(* A prefill that hands the request to the decode list after its first chunk *)
PrefillOneChunkOnly(e, reqs, token_budget) ==
    Bind(PopCandidate(e, reqs, token_budget), LAMBDA p :
        IF p.blocked THEN NoPrefillResult(e, reqs)
        ELSE Bind(RunChunk(p.engine, reqs, token_budget), LAMBDA r :
                 IF r.started /\ ~IsNone(r.engine.active_prefill)
                 THEN [r EXCEPT !.engine.active_prefill = None,
                                !.engine.active_decodes =
                                    Append(@, Val(r.engine.active_prefill).request)]
                 ELSE r))

maybe_start_prefill(e, reqs, token_budget) ==
    Bind(PopCandidate(e, reqs, token_budget), LAMBDA p :
        IF p.blocked THEN NoPrefillResult(e, reqs)
        ELSE RunChunk(p.engine, reqs, token_budget))

(* lines 151-171: the decode phase *)
DecodeCandidates(e, reqs) ==
    SelectSeq(e.active_decodes, LAMBDA r : reqs[r].remaining_decode > 0)

RECURSIVE DecodeLoop(_, _, _, _)
DecodeLoop(selected, e, reqs, evs) ==
    IF selected = << >> THEN [engine |-> e, requests |-> reqs, events |-> evs]
    ELSE LET req == Head(selected)
             reqs2 == [reqs EXCEPT ![req].remaining_decode = @ - 1]
             ev == [event_type |-> "DECODE_STEP", time |-> e.time, request_id |-> req,
                    token_index |-> reqs2[req].output_tokens_target - reqs2[req].remaining_decode,
                    tokens_generated_this_step |-> 1]
         IN  DecodeLoop(Tail(selected), [e EXCEPT !.kv_tokens = @ + 1], reqs2, Append(evs, ev))

DecodeTake(n, token_budget) == Min2(n, token_budget)

(* A decode phase that does not charge its tokens to the step's budget *)
DecodePhaseUncharged(e, reqs) ==
    Bind(e.max_num_batched_tokens, LAMBDA token_budget :
    Bind(DecodeCandidates(e, reqs), LAMBDA decode_candidates :
        IF decode_candidates # << >> /\ token_budget > 0
        THEN Bind(SubSeq(decode_candidates, 1, DecodeTake(Len(decode_candidates), token_budget)),
                  LAMBDA selected :
             Bind(DecodeLoop(selected, e, reqs, << >>), LAMBDA d :
                 [engine |-> d.engine, requests |-> d.requests, events |-> d.events,
                  batch_tokens |-> Len(selected), token_budget |-> token_budget]))
        ELSE [engine |-> e, requests |-> reqs, events |-> << >>,
              batch_tokens |-> 0, token_budget |-> token_budget]))

DecodePhase(e, reqs) ==
    Bind(e.max_num_batched_tokens, LAMBDA token_budget :
    Bind(DecodeCandidates(e, reqs), LAMBDA decode_candidates :
        IF decode_candidates # << >> /\ token_budget > 0
        THEN Bind(SubSeq(decode_candidates, 1, DecodeTake(Len(decode_candidates), token_budget)),
                  LAMBDA selected :
             Bind(DecodeLoop(selected, e, reqs, << >>), LAMBDA d :
                 [engine |-> d.engine, requests |-> d.requests, events |-> d.events,
                  batch_tokens |-> Len(selected), token_budget |-> token_budget - Len(selected)]))
        ELSE [engine |-> e, requests |-> reqs, events |-> << >>,
              batch_tokens |-> 0, token_budget |-> token_budget]))

(* lines 183-195: the completion sweep over a copy of active_decodes *)
RECURSIVE CompletionLoop(_, _, _, _, _)
CompletionLoop(snapshot, e, reqs, evs, time) ==
    IF snapshot = << >> THEN [engine |-> e, events |-> evs]
    ELSE LET req == Head(snapshot)
         IN  IF reqs[req].remaining_decode <= 0
             THEN CompletionLoop(Tail(snapshot),
                                 [e EXCEPT !.active_decodes = RemoveFirst(@, req),
                                           !.completed = Append(@, req)],
                                 reqs,
                                 Append(evs, [event_type |-> "REQUEST_COMPLETED",
                                              time |-> time, request_id |-> req]),
                                 time)
             ELSE CompletionLoop(Tail(snapshot), e, reqs, evs, time)

(* VLLMEngineSimulator.step: the new engine, the new requests, the returned events *)
step(e, reqs) ==
    Bind(DecodePhase(e, reqs), LAMBDA d :
    Bind(IF d.batch_tokens # 0 THEN decode_time(d.engine, d.batch_tokens) ELSE 0,
         LAMBDA decode_time_cost :
    Bind(IF d.token_budget > 0
         THEN maybe_start_prefill(d.engine, d.requests, d.token_budget)
         ELSE NoPrefillResult(d.engine, d.requests), LAMBDA p :
    Bind(IF p.started THEN p.cost ELSE 0, LAMBDA prefill_cost :
    Bind(CompletionLoop(p.engine.active_decodes, p.engine, p.requests, << >>,
                        e.time + decode_time_cost + prefill_cost), LAMBDA c :
    Bind(d.events \o (IF p.started THEN p.events ELSE << >>) \o c.events, LAMBDA evs :
    Bind(decode_time_cost + prefill_cost, LAMBDA time_advance :
        IF time_advance = 0 /\ evs = << >>
        THEN [engine |-> c.engine, requests |-> p.requests, events |-> << >>]
        ELSE [engine |-> [c.engine EXCEPT !.time = @ + Max2(time_advance, MIN_ADVANCE)],
              requests |-> p.requests, events |-> evs])))))))

get_state_snapshot(e, reqs) ==
    [time |-> e.time,
     num_active_decodes |-> Len(DecodeCandidates(e, reqs)),
     has_active_prefill |-> ~IsNone(e.active_prefill),
     kv_tokens_used |-> e.kv_tokens,
     kv_tokens_capacity |-> e.max_kv_tokens,
     num_pending_prefills |-> Len(e.pending_prefill),
     num_completed_requests |-> Len(e.completed)]

----------------------------------------------------------------------------
(* models.py: Application, User, Interaction *)

(* tests.py simple_app(): expected tokens by stage index; a missing stage   *)
(* falls back to the defaults of dict.get in stage_weight                   *)
Application(app_id, user_rpm_limit, app_rpm_limit) ==
    [app_id |-> app_id,
     expected_input_tokens |-> (0 :> 10 @@ 1 :> 5),
     expected_system_tokens |-> (0 :> 2 @@ 1 :> 2),
     expected_output_tokens |-> (0 :> 5 @@ 1 :> 5),
     user_rpm_limit |-> user_rpm_limit,
     app_rpm_limit |-> app_rpm_limit]

DictGet(d, k, default) == IF k \in DOMAIN d THEN d[k] ELSE default

stage_weight(app, stage, alpha, beta, gamma) ==
    LET ni == DictGet(app.expected_input_tokens, stage, 1)
        ns == DictGet(app.expected_system_tokens, stage, 0)
        no == DictGet(app.expected_output_tokens, stage, 1)
    IN  alpha * ni + beta * ns + gamma * no

(* User.priority, default 1.0 *)
Priority(user) == 1

Interaction(reqIds) == [requests |-> reqIds, next_index |-> 0, complete |-> FALSE]

(* Interaction.next_request: the interaction afterwards and the Optional request *)
next_request(inter) ==
    IF inter.complete \/ inter.next_index >= Len(inter.requests)
    THEN [inter |-> [inter EXCEPT !.complete = TRUE], req |-> None]
    ELSE [inter |-> [inter EXCEPT !.next_index = @ + 1],
          req |-> Some(inter.requests[inter.next_index + 1])]

mark_stage_complete(inter) ==
    IF inter.next_index >= Len(inter.requests)
    THEN [inter EXCEPT !.complete = TRUE]
    ELSE inter

----------------------------------------------------------------------------
(* scheduler.py *)

EmptyMap == [u \in {} |-> 0]

(* defaultdict(float): reading a missing key yields 0 and inserts it *)
Get(m, k) == IF k \in DOMAIN m THEN m[k] ELSE 0
Touch(m, k) == IF k \in DOMAIN m THEN m ELSE [x \in DOMAIN m \cup {k} |-> IF x = k THEN 0 ELSE m[x]]
Put(m, k, v) == [x \in DOMAIN m \cup {k} |-> IF x = k THEN v ELSE m[x]]

RECURSIVE TouchAll(_, _)
TouchAll(m, keys) ==
    IF keys = << >> THEN m ELSE TouchAll(Touch(m, Head(keys)), Tail(keys))

SetMin(S) == CHOOSE x \in S : \A y \in S : x <= y

(* min(keys, key=...) of Python: the first key, in iteration order, of minimal value *)
RECURSIVE ArgMinFrom(_, _, _)
ArgMinFrom(keys, m, best) ==
    IF keys = << >> THEN best
    ELSE ArgMinFrom(Tail(keys), m,
                    IF Get(m, Head(keys)) < Get(m, best) THEN Head(keys) ELSE best)

ArgMin(keys, m) == ArgMinFrom(Tail(keys), m, Head(keys))

FCFSScheduler ==
    [kind |-> "FCFS", counter_lift |-> FALSE, counters |-> EmptyMap, service |-> EmptyMap,
     w_p |-> 0, w_q |-> 0, alpha |-> 0, beta |-> 0, gamma |-> 0]

VTCScheduler(counter_lift) ==
    [kind |-> "VTC", counter_lift |-> counter_lift, counters |-> EmptyMap, service |-> EmptyMap,
     w_p |-> 1, w_q |-> 1, alpha |-> 0, beta |-> 0, gamma |-> 0]

FairServeScheduler(counter_lift) ==
    [kind |-> "WSC", counter_lift |-> counter_lift, counters |-> EmptyMap, service |-> EmptyMap,
     w_p |-> 0, w_q |-> 0, alpha |-> 1, beta |-> 2, gamma |-> 1]

(* FairServeScheduler._weight *)
Weight(s, req) == stage_weight(req.application, req.stage, s.alpha, s.beta, s.gamma)

(* WSC counters are rationals inc = priority * tokens / weight; the model    *)
(* keeps them times ServiceScale, a common multiple of every stage weight.  *)
ServiceScale ==
    LET app == Application("toy", 0, 0)
    IN  stage_weight(app, USER_PROMPT, 1, 2, 1) * stage_weight(app, AGENT_1, 1, 2, 1)
          * stage_weight(app, FINAL, 1, 2, 1)

(* A lift applied whether or not counter_lift is set *)
LiftIgnoresFlag(counter_lift, m, user) ==
    IF DOMAIN m # {}
    THEN LET minimum == SetMin({m[u] : u \in DOMAIN m})
         IN  Put(m, user, Max2(Get(m, user), minimum))
    ELSE m

(* A lift that sets the counter to the minimum instead of raising it *)
LiftToMinimum(counter_lift, m, user) ==
    IF counter_lift /\ DOMAIN m # {}
    THEN Put(m, user, SetMin({m[u] : u \in DOMAIN m}))
    ELSE m

(* The lift rule shared by VTCScheduler and FairServeScheduler *)
Lift(counter_lift, m, user) ==
    IF counter_lift /\ DOMAIN m # {}
    THEN LET minimum == SetMin({m[u] : u \in DOMAIN m})
         IN  Put(m, user, Max2(Get(m, user), minimum))
    ELSE m

on_request_arrival(s, req) ==
    CASE s.kind = "VTC" -> [s EXCEPT !.counters = Lift(s.counter_lift, @, req.user)]
      [] s.kind = "WSC" -> [s EXCEPT !.service = Lift(s.counter_lift, @, req.user)]
      [] OTHER -> s

on_prefill_added(s, req) ==
    CASE s.kind = "VTC" ->
            [s EXCEPT !.counters = Put(@, req.user, Get(@, req.user) + s.w_p * PromptTokens(req))]
      [] s.kind = "WSC" ->
            LET tokens == s.alpha * req.input_tokens + s.beta * req.system_tokens
                inc == (Priority(req.user) * tokens * ServiceScale) \div Weight(s, req)
            IN  [s EXCEPT !.service = Put(@, req.user, Get(@, req.user) + inc)]
      [] OTHER -> s

RECURSIVE on_decode_iteration(_, _, _)
on_decode_iteration(s, reqs, served) ==
    IF served = << >> THEN s
    ELSE LET req == reqs[Head(served)]
             s2 == CASE s.kind = "VTC" ->
                          [s EXCEPT !.counters = Put(@, req.user, Get(@, req.user) + s.w_q)]
                     [] s.kind = "WSC" ->
                          LET inc == (Priority(req.user) * s.gamma * ServiceScale) \div Weight(s, req)
                          IN  [s EXCEPT !.service = Put(@, req.user, Get(@, req.user) + inc)]
                     [] OTHER -> s
         IN  on_decode_iteration(s2, reqs, Tail(served))

(* waiting_by_user: the users in order of first appearance in the queue, and *)
(* each one's earliest waiting request                                      *)
RECURSIVE UserOrder(_, _, _)
UserOrder(waiting, reqs, seen) ==
    IF waiting = << >> THEN seen
    ELSE LET u == reqs[Head(waiting)].user
         IN  UserOrder(Tail(waiting), reqs, IF u \in Range(seen) THEN seen ELSE Append(seen, u))

(* The latest waiting request of a user instead of the earliest *)
LastOfUser(waiting, reqs, u) ==
    waiting[CHOOSE i \in 1..Len(waiting) :
              /\ reqs[waiting[i]].user = u
              /\ \A j \in (i + 1)..Len(waiting) : reqs[waiting[j]].user # u]

HeadOfUser(waiting, reqs, u) ==
    waiting[CHOOSE i \in 1..Len(waiting) :
              /\ reqs[waiting[i]].user = u
              /\ \A j \in 1..(i - 1) : reqs[waiting[j]].user # u]

SelectResult(selected, waiting, inters, s) ==
    [selected |-> selected, waiting |-> waiting, interaction |-> inters, scheduler |-> s]

(* FCFSScheduler.select_next_requests, lines 33-43 *)
RECURSIVE FCFSLoop(_, _, _, _, _, _, _)
FCFSLoop(selected, waiting, inters, s, reqs, kv_tokens, lim) ==
    IF waiting # << >> /\ Len(selected) < lim.max_batch /\ kv_tokens < lim.kv_capacity
    THEN LET nxt == Head(waiting)
         IN  IF kv_tokens + PromptTokens(reqs[nxt]) <= lim.kv_capacity
             THEN FCFSLoop(Append(selected, nxt), Tail(waiting), inters, s, reqs,
                           kv_tokens + PromptTokens(reqs[nxt]), lim)
             ELSE SelectResult(selected, waiting, inters, s)
    ELSE SelectResult(selected, waiting, inters, s)

(* VTCScheduler.select_next_requests, lines 69-87 *)
RECURSIVE VTCLoop(_, _, _, _, _, _, _)
VTCLoop(selected, waiting, inters, s, reqs, kv_tokens, lim) ==
    IF waiting # << >> /\ Len(selected) < lim.max_batch
    THEN Bind(UserOrder(waiting, reqs, << >>), LAMBDA users :
         Bind(TouchAll(s.counters, users), LAMBDA counters :
         Bind(HeadOfUser(waiting, reqs, ArgMin(users, counters)), LAMBDA candidate :
         Bind([s EXCEPT !.counters = counters], LAMBDA s2 :
             IF kv_tokens + PromptTokens(reqs[candidate]) > lim.kv_capacity
             THEN SelectResult(selected, waiting, inters, s2)
             ELSE VTCLoop(Append(selected, candidate), RemoveFirst(waiting, candidate),
                          inters, s2, reqs, kv_tokens + PromptTokens(reqs[candidate]), lim)))))
    ELSE SelectResult(selected, waiting, inters, s)

(* FairServeScheduler.select_next_requests, lines 122-123: ready_users as a  *)
(* dict: its keys in insertion order, and for each key the last interaction *)
(* that wrote it                                                            *)
ReadyInteractions(inters, order) ==
    SelectSeq(order, LAMBDA i : ~inters[i].complete /\ inters[i].next_index < Len(inters[i].requests))

NextUser(inters, reqs, i) == reqs[inters[i].requests[inters[i].next_index + 1]].user

RECURSIVE ReadyKeys(_, _, _, _)
ReadyKeys(ready, inters, reqs, keys) ==
    IF ready = << >> THEN keys
    ELSE LET u == NextUser(inters, reqs, Head(ready))
         IN  ReadyKeys(Tail(ready), inters, reqs, IF u \in Range(keys) THEN keys ELSE Append(keys, u))

ReadyValue(ready, inters, reqs, u) ==
    ready[CHOOSE i \in 1..Len(ready) :
            /\ NextUser(inters, reqs, ready[i]) = u
            /\ \A j \in (i + 1)..Len(ready) : NextUser(inters, reqs, ready[j]) # u]

(* FairServeScheduler.select_next_requests, lines 124-152.  ready_keys and  *)
(* ready_vals are the dict built before the loop; pop removes a key.        *)
RECURSIVE WSCLoop(_, _, _, _, _, _, _, _, _)
WSCLoop(selected, waiting, inters, s, reqs, kv_tokens, lim, ready_keys, ready_vals) ==
    IF Len(selected) < lim.max_batch /\ kv_tokens < lim.kv_capacity
    THEN IF ready_keys # << >>
         THEN Bind(TouchAll(s.service, ready_keys), LAMBDA service :
              Bind(ArgMin(ready_keys, service), LAMBDA uid :
              Bind(ready_vals[uid], LAMBDA i :
              Bind(inters[i].requests[inters[i].next_index + 1], LAMBDA req :
              Bind([s EXCEPT !.service = service], LAMBDA s2 :
                  IF kv_tokens + PromptTokens(reqs[req]) <= lim.kv_capacity
                  THEN WSCLoop(Append(selected, req), waiting,
                               [inters EXCEPT ![i].next_index = @ + 1], s2, reqs,
                               kv_tokens + PromptTokens(reqs[req]), lim,
                               RemoveFirst(ready_keys, uid), ready_vals)
                  ELSE SelectResult(selected, waiting, inters, s2))))))
         ELSE IF waiting = << >> THEN SelectResult(selected, waiting, inters, s)
         ELSE Bind(UserOrder(waiting, reqs, << >>), LAMBDA users :
              Bind(TouchAll(s.service, users), LAMBDA service :
              Bind(HeadOfUser(waiting, reqs, ArgMin(users, service)), LAMBDA candidate :
              Bind([s EXCEPT !.service = service], LAMBDA s2 :
                  IF kv_tokens + PromptTokens(reqs[candidate]) > lim.kv_capacity
                  THEN SelectResult(selected, waiting, inters, s2)
                  ELSE WSCLoop(Append(selected, candidate), RemoveFirst(waiting, candidate),
                               inters, s2, reqs, kv_tokens + PromptTokens(reqs[candidate]), lim,
                               ready_keys, ready_vals)))))
    ELSE SelectResult(selected, waiting, inters, s)

(* select_next_requests(waiting, interactions, kv_tokens, kv_capacity,      *)
(* max_batch); interactions is the dict as its keys in insertion order      *)
select_next_requests(s, waiting, inters, order, reqs, kv_tokens, kv_capacity, max_batch) ==
    LET lim == [kv_capacity |-> kv_capacity, max_batch |-> max_batch]
    IN  CASE s.kind = "FCFS" -> FCFSLoop(<< >>, waiting, inters, s, reqs, kv_tokens, lim)
          [] s.kind = "VTC" -> VTCLoop(<< >>, waiting, inters, s, reqs, kv_tokens, lim)
          [] OTHER ->
              Bind(ReadyInteractions(inters, order), LAMBDA ready :
              Bind(ReadyKeys(ready, inters, reqs, << >>), LAMBDA keys :
                  WSCLoop(<< >>, waiting, inters, s, reqs, kv_tokens, lim, keys,
                          [u \in Range(keys) |-> ReadyValue(ready, inters, reqs, u)])))

----------------------------------------------------------------------------
(* oit.py *)

AppIds == {"toy"}

OIT(window, kv_threshold, max_batch) ==
    [window |-> window, kv_threshold |-> kv_threshold, max_batch |-> max_batch,
     user_windows |-> [u \in Users |-> << >>],
     app_windows |-> [a \in AppIds |-> << >>],
     throttled |-> 0]

RECURSIVE evict(_, _, _)
evict(dq, now, window) ==
    IF dq # << >> /\ Head(dq) <= now - window THEN evict(Tail(dq), now, window) ELSE dq

record_arrival(o, req) ==
    [o EXCEPT !.user_windows[req.user] = Append(@, req.arrival_time),
              !.app_windows[req.application.app_id] = Append(@, req.arrival_time)]

is_overloaded(o, kv_usage, running) == kv_usage > o.kv_threshold \/ running >= o.max_batch

(* OIT.should_throttle: the OIT afterwards (windows evicted) and the answer *)
(* A throttle decision that applies the window limits to every stage *)
ThrottleAnyStage(o, req, kv_usage, running, dq_u, dq_a) ==
    IF ~is_overloaded(o, kv_usage, running) THEN FALSE
    ELSE IF Len(dq_u) >= req.application.user_rpm_limit THEN TRUE
    ELSE IF Len(dq_a) >= req.application.app_rpm_limit THEN TRUE
    ELSE FALSE

(* A throttle decision that lets a window grow one past its limit *)
ThrottleAboveLimit(o, req, kv_usage, running, dq_u, dq_a) ==
    IF ~is_overloaded(o, kv_usage, running) THEN FALSE
    ELSE IF req.stage # USER_PROMPT THEN FALSE
    ELSE IF Len(dq_u) > req.application.user_rpm_limit THEN TRUE
    ELSE IF Len(dq_a) > req.application.app_rpm_limit THEN TRUE
    ELSE FALSE

ThrottleAnswer(o, req, kv_usage, running, dq_u, dq_a) ==
    IF ~is_overloaded(o, kv_usage, running) THEN FALSE
    ELSE IF req.stage # USER_PROMPT THEN FALSE
    ELSE IF Len(dq_u) >= req.application.user_rpm_limit THEN TRUE
    ELSE IF Len(dq_a) >= req.application.app_rpm_limit THEN TRUE
    ELSE FALSE

should_throttle(o, req, kv_usage, running) ==
    Bind(evict(o.user_windows[req.user], req.arrival_time, o.window), LAMBDA dq_u :
    Bind(evict(o.app_windows[req.application.app_id], req.arrival_time, o.window), LAMBDA dq_a :
        [oit |-> [o EXCEPT !.user_windows[req.user] = dq_u,
                           !.app_windows[req.application.app_id] = dq_a],
         throttle |-> ThrottleAnswer(o, req, kv_usage, running, dq_u, dq_a)]))

(* OIT.throttle: req.throttled = True is applied by the caller's world update *)
throttle(o) == [o EXCEPT !.throttled = @ + 1]

----------------------------------------------------------------------------
(* simulator.py.  A world w is a record of the objects a handler touches:   *)
(* requests, interaction, engine, events, sim, scheduler, oit, submitted.   *)

Simulator(kv_capacity, max_batch, max_time) ==
    [kv_capacity |-> kv_capacity, max_batch |-> max_batch, max_time |-> max_time,
     current_tick |-> 0,
     waiting |-> << >>,
     interactions |-> << >>,
     completed_requests |-> << >>,
     throttled_requests |-> << >>,
     wasted_tokens |-> 0,
     accounted_prefill |-> {},
     id_to_request |-> {}]

World ==
    [requests |-> requests, interaction |-> interaction, engine |-> engine,
     events |-> events, sim |-> sim, scheduler |-> scheduler, oit |-> oit,
     submitted |-> submitted, last_select |-> last_select,
     hook_calls |-> hook_calls, history |-> history]

accept_request(w, r) ==
    [w EXCEPT !.scheduler = on_request_arrival(@, w.requests[r]),
              !.sim.waiting = Append(@, r),
              !.sim.id_to_request = @ \cup {r}]

submit_interaction(w, i) ==
    Bind(next_request(w.interaction[i]), LAMBDA nr :
    Bind([w EXCEPT !.sim.interactions = IF i \in Range(@) THEN @ ELSE Append(@, i),
                   !.interaction[i] = nr.inter], LAMBDA w2 :
        IF ~IsNone(nr.req) THEN accept_request(w2, Val(nr.req)) ELSE w2))

(* One iteration of the loop of inject_requests *)
inject_request(w, r) ==
    Bind(get_state_snapshot(w.engine, w.requests), LAMBDA snapshot :
        IF ~IsNone(w.oit)
        THEN Bind(should_throttle(Val(w.oit), w.requests[r],
                                  snapshot.kv_tokens_used, snapshot.num_active_decodes),
                  LAMBDA t :
                 IF t.throttle
                 THEN [w EXCEPT !.oit = Some(throttle(t.oit)),
                                !.requests[r].throttled = TRUE,
                                !.sim.throttled_requests = Append(@, r)]
                 ELSE accept_request([w EXCEPT !.oit = Some(record_arrival(t.oit, w.requests[r]))], r))
        ELSE accept_request(w, r))

RECURSIVE SubmitAll(_, _)
SubmitAll(e, selected) ==
    IF selected = << >> THEN e
    ELSE SubmitAll(submit_request(e, Head(selected)), Tail(selected))

admit_to_engine(w) ==
    Bind(get_state_snapshot(w.engine, w.requests), LAMBDA snapshot :
    Bind(select_next_requests(w.scheduler, w.sim.waiting, w.interaction,
                              w.sim.interactions, w.requests,
                              snapshot.kv_tokens_used, snapshot.kv_tokens_capacity,
                              w.sim.max_batch), LAMBDA sel :
        [w EXCEPT !.sim.waiting = sel.waiting,
                  !.interaction = sel.interaction,
                  !.scheduler = sel.scheduler,
                  !.engine = SubmitAll(@, sel.selected),
                  !.submitted = @ \o sel.selected,
                  !.last_select = Some([waiting |-> w.sim.waiting,
                                        kv_tokens_used |-> snapshot.kv_tokens_used,
                                        kv_tokens_capacity |-> snapshot.kv_tokens_capacity,
                                        max_to_release |-> w.sim.max_batch,
                                        selected |-> sel.selected])]))

(* lines 81-83 *)
AccountPrefill(w, ev) ==
    IF /\ ev.event_type = "PREFILL_CHUNK_STARTED"
       /\ ev.chunk_id = 0
       /\ ev.request_id \in w.sim.id_to_request
       /\ ev.request_id \notin w.sim.accounted_prefill
    THEN [w EXCEPT !.scheduler = on_prefill_added(@, w.requests[ev.request_id]),
                   !.hook_calls = Append(@, "on_prefill_added"),
                   !.history.prefill_added = Append(@, ev.request_id),
                   !.sim.accounted_prefill = @ \cup {ev.request_id}]
    ELSE w

(* lines 86-95 *)
RecordCompletion(w, ev) ==
    IF ev.event_type = "REQUEST_COMPLETED" /\ ev.request_id \in w.sim.id_to_request
    THEN Bind(ev.request_id, LAMBDA r :
         Bind(w.requests[r].interaction_id, LAMBDA i :
         Bind([w EXCEPT !.requests[r].completion_time = Some(ev.time),
                        !.sim.completed_requests = Append(@, r)], LAMBDA w2 :
             IF i \in Range(w2.sim.interactions)
             THEN Bind(next_request(mark_stage_complete(w2.interaction[i])), LAMBDA nr :
                  Bind([w2 EXCEPT !.interaction[i] = nr.inter], LAMBDA w3 :
                      IF ~IsNone(nr.req)
                      THEN accept_request(
                               [w3 EXCEPT !.requests[Val(nr.req)].arrival_time =
                                              ev.time \div TimeUnitsPerSecond],
                               Val(nr.req))
                      ELSE w3))
             ELSE w2)))
    ELSE w

RECURSIVE EventLoop(_, _, _)
EventLoop(w, evs, decode_served) ==
    IF evs = << >>
    THEN IF decode_served # << >>
         THEN [w EXCEPT !.scheduler = on_decode_iteration(@, w.requests, decode_served),
                        !.hook_calls = Append(@, "on_decode_iteration"),
                        !.history.decode_served = @ \o decode_served]
         ELSE w
    ELSE Bind(Head(evs), LAMBDA ev :
             EventLoop(RecordCompletion(AccountPrefill(w, ev), ev), Tail(evs),
                       IF ev.event_type = "DECODE_STEP" /\ ev.request_id \in w.sim.id_to_request
                       THEN Append(decode_served, ev.request_id)
                       ELSE decode_served))

process_events(w, evs) == EventLoop(w, evs, << >>)

Logged(event_log, evs) == IF evs = << >> THEN event_log ELSE Append(event_log, evs)

NoHistory == [event_log |-> << >>, prefill_added |-> << >>, decode_served |-> << >>]

EngineStepped(w) ==
    Bind(step(w.engine, w.requests), LAMBDA r :
        [w EXCEPT !.engine = r.engine, !.requests = r.requests, !.events = r.events,
                  !.history.event_log = Logged(@, r.events)])

(* A step that advances current_tick only when the engine returned events *)
StepCountsOnlyEvents(w) ==
    Bind(EngineStepped(admit_to_engine([w EXCEPT !.hook_calls = << >>])), LAMBDA w2 :
        IF w2.events # << >>
        THEN Bind(process_events(w2, w2.events), LAMBDA w3 :
                 [w3 EXCEPT !.sim.current_tick = @ + 1])
        ELSE w2)

(* Simulator.step *)
sim_step(w) ==
    Bind(EngineStepped(admit_to_engine([w EXCEPT !.hook_calls = << >>])), LAMBDA w2 :
    Bind(IF w2.events # << >> THEN process_events(w2, w2.events) ELSE w2, LAMBDA w3 :
        [w3 EXCEPT !.sim.current_tick = @ + 1]))

RunCondition(w) ==
    /\ w.sim.current_tick < w.sim.max_time
    /\ \/ w.sim.waiting # << >>
       \/ has_pending_work(w.engine)
       \/ \E k \in 1..Len(w.sim.interactions) : ~w.interaction[w.sim.interactions[k]].complete

RECURSIVE WastedSum(_, _)
WastedSum(waiting, reqs) ==
    IF waiting = << >> THEN 0
    ELSE PromptTokens(reqs[Head(waiting)]) + reqs[Head(waiting)].remaining_decode
           + WastedSum(Tail(waiting), reqs)

(* lines 109-110 of run() *)
run_return(w) == [w EXCEPT !.sim.wasted_tokens = @ + WastedSum(w.sim.waiting, w.requests)]

Commit(w) ==
    /\ requests' = w.requests
    /\ interaction' = w.interaction
    /\ engine' = w.engine
    /\ events' = w.events
    /\ sim' = w.sim
    /\ scheduler' = w.scheduler
    /\ oit' = w.oit
    /\ submitted' = w.submitted
    /\ last_select' = w.last_select
    /\ hook_calls' = w.hook_calls
    /\ history' = w.history

----------------------------------------------------------------------------
(* Workload: requests are created with ids dense from 0, as                 *)
(* WorkloadGenerator does, with token counts from the bounded sets.         *)

NextId == Cardinality(DOMAIN requests)
NextInteractionId == Cardinality(DOMAIN interaction)

Extend(f, k, v) == [x \in DOMAIN f \cup {k} |-> IF x = k THEN v ELSE f[x]]

Toy == Application("toy", 1, 2)

(* <<input_tokens, system_tokens>> and output_tokens_target of a request *)
PromptChoices == {<<0, 0>>, <<1, 0>>, <<1, 1>>, <<2, 0>>}
OutputChoices == {1, 2}
SimPromptChoices == {<<1, 1>>, <<1, 0>>}
SimOutputChoices == {2}
ArrivalChoices == {0, 1, 2}
OitWindow == 2

(* workload.py build_trace: the stage lists of an interaction *)
StageLists == {<<USER_PROMPT>>, <<USER_PROMPT, FINAL>>}

----------------------------------------------------------------------------
(* EngineSpec: any sequence of submit_request and step() on one engine *)

EngineInit ==
    /\ requests = << >>
    /\ interaction = << >>
    /\ \E kv \in (MaxKv - 1)..MaxKv, b \in 1..MaxBatchTokens, c \in {1, DefaultChunkSize} :
          engine = VLLMEngineSimulator(kv, b, c)
    /\ events = << >>
    /\ sim = Simulator(0, 0, 0)
    /\ scheduler = FCFSScheduler
    /\ oit = None
    /\ pc = "engine"
    /\ runs = 0
    /\ submitted = << >>
    /\ last_select = None
    /\ hook_calls = << >>
    /\ history = NoHistory

EngineSubmit ==
    /\ NextId < NumRequests
    /\ \E p \in PromptChoices, out \in OutputChoices :
          LET r == NextId
          IN  /\ requests' = Extend(requests, r, Request("a", Toy, r, USER_PROMPT, p[1], p[2], out, 0))
              /\ engine' = submit_request(engine, r)
              /\ submitted' = Append(submitted, r)
    /\ UNCHANGED <<interaction, events, sim, scheduler, oit, pc, runs, last_select, hook_calls,
                 history>>

StepResult(r) ==
    /\ engine' = r.engine
    /\ requests' = r.requests
    /\ events' = r.events

EngineStep ==
    /\ StepResult(step(engine, requests))
    /\ history' = [history EXCEPT !.event_log = Logged(@, events')]
    /\ UNCHANGED <<interaction, sim, scheduler, oit, pc, runs, submitted, last_select, hook_calls>>

EngineNext == EngineSubmit \/ EngineStep

EngineSpec == EngineInit /\ [][EngineNext]_vars


----------------------------------------------------------------------------
(* Spec: a Simulator driven by submit_interaction and run() *)

SimInit(kvs, schedulers, oits) ==
    /\ requests = << >>
    /\ interaction = << >>
    /\ \E kv \in kvs, b \in 1..MaxBatchTokens :
          /\ sim = Simulator(kv, b, MaxTime)
          /\ engine = VLLMEngineSimulator(kv, b, DefaultChunkSize)
    /\ events = << >>
    /\ scheduler \in schedulers
    /\ oit \in oits
    /\ pc = "idle"
    /\ runs = 0
    /\ submitted = << >>
    /\ last_select = None
    /\ hook_calls = << >>
    /\ history = NoHistory

AlwaysOverloaded == OIT(OitWindow, 1, 0)
SometimesOverloaded == OIT(OitWindow, 1, 1)

Init ==
    SimInit({MaxKv, DefaultKvCapacity},
            {FCFSScheduler, VTCScheduler(TRUE), FairServeScheduler(TRUE)},
            {None, Some(AlwaysOverloaded)})

(* The requests of a new interaction, one per stage *)
NewRequests(user, stages, prompts, outs) ==
    [k \in NextId..(NextId + Len(stages) - 1) |->
        LET j == k - NextId + 1
        IN  Request(user, Toy, NextInteractionId, stages[j], prompts[j][1], prompts[j][2], outs[j], 0)]

SubmitNew(user, stages, prompts, outs) ==
    /\ pc = "idle"
    /\ NextId + Len(stages) <= NumRequests
    /\ LET new == NewRequests(user, stages, prompts, outs)
           ids == [j \in 1..Len(stages) |-> NextId + j - 1]
           w == [World EXCEPT
                    !.requests = [x \in DOMAIN requests \cup DOMAIN new |->
                                     IF x \in DOMAIN new THEN new[x] ELSE requests[x]],
                    !.interaction = Extend(interaction, NextInteractionId, Interaction(ids))]
       IN  Commit(submit_interaction(w, NextInteractionId))
    /\ UNCHANGED <<pc, runs>>

SubmitInteraction ==
    \E user \in Users, stages \in StageLists :
      \E prompts \in [1..Len(stages) -> SimPromptChoices], outs \in [1..Len(stages) -> SimOutputChoices] :
         SubmitNew(user, stages, prompts, outs)

RunCall ==
    /\ pc = "idle"
    /\ runs < MaxRuns
    /\ pc' = "running"
    /\ runs' = runs + 1
    /\ UNCHANGED <<requests, interaction, engine, events, sim, scheduler, oit, submitted, last_select,
                 hook_calls, history>>

RunTick ==
    /\ pc = "running"
    /\ RunCondition(World)
    /\ Commit(sim_step(World))
    /\ UNCHANGED <<pc, runs>>

RunReturn ==
    /\ pc = "running"
    /\ ~RunCondition(World)
    /\ Commit(run_return(World))
    /\ pc' = "idle"
    /\ UNCHANGED runs

Next == SubmitInteraction \/ RunCall \/ RunTick \/ RunReturn

Spec == Init /\ [][Next]_vars


----------------------------------------------------------------------------
(* InjectSpec: a Simulator with an OIT, driven by inject_requests, by       *)
(* submit_interaction of two-stage interactions, and by run()               *)

InjectInit ==
    SimInit({DefaultKvCapacity},
            {FCFSScheduler, FairServeScheduler(TRUE)},
            {Some(AlwaysOverloaded), Some(SometimesOverloaded)})

(* The arrival time of the last injected request *)
LastArrival ==
    LET injected == {q \in DOMAIN requests : requests[q].interaction_id >= NumRequests}
    IN  IF injected = {} THEN 0
        ELSE CHOOSE t \in ArrivalChoices :
                /\ \E q \in injected : requests[q].arrival_time = t
                /\ \A q \in injected : requests[q].arrival_time <= t

(* inject_requests([req]) with a new request that belongs to no submitted  *)
(* interaction; a trace hands requests over in arrival order               *)
InjectRequests ==
    /\ pc = "idle"
    /\ NextId < NumRequests
    /\ \E user \in Users, stage \in {USER_PROMPT, AGENT_1}, t \in ArrivalChoices :
          LET r == NextId
              w == [World EXCEPT
                       !.requests = Extend(requests, r,
                                           Request(user, Toy, NumRequests + r, stage, 1, 1, 1, t))]
          IN  /\ t >= LastArrival
              /\ Commit(inject_request(w, r))
    /\ UNCHANGED <<pc, runs>>

SubmitTwoStage == SubmitNew("a", <<USER_PROMPT, FINAL>>, <<<<1, 1>>, <<1, 0>>>>, <<1, 1>>)

InjectNext == InjectRequests \/ SubmitTwoStage \/ RunCall \/ RunTick \/ RunReturn

InjectSpec == InjectInit /\ [][InjectNext]_vars

----------------------------------------------------------------------------
(* SchedSpec: a scheduler driven through its four hooks, as _accept_request, *)
(* _process_events and _admit_to_engine call them, with any arguments       *)

(* stage, <<input_tokens, system_tokens>> of an arriving request *)
SchedRequestChoices == {<<USER_PROMPT, <<1, 1>>>>, <<USER_PROMPT, <<0, 0>>>>, <<AGENT_1, <<1, 1>>>>}

(* <<kv_tokens, max_batch>> of a select call: an empty cache with room for *)
(* one release or for several, a cache with room for one request, a full   *)
(* cache                                                                    *)
SchedCallChoices ==
    {<<0, 1>>, <<0, MaxBatchTokens>>, <<MaxKv - 2, MaxBatchTokens>>, <<MaxKv, MaxBatchTokens>>}

(* The scheduler's counter map: counters of VTC, service of WSC *)
Counters(s) == IF s.kind = "WSC" THEN s.service ELSE s.counters

SchedInit ==
    /\ requests = << >>
    /\ interaction = << >>
    /\ engine = VLLMEngineSimulator(MaxKv, MaxBatchTokens, DefaultChunkSize)
    /\ events = << >>
    /\ sim = Simulator(MaxKv, MaxBatchTokens, MaxTime)
    /\ scheduler \in {FCFSScheduler, VTCScheduler(TRUE), VTCScheduler(FALSE),
                       FairServeScheduler(TRUE), FairServeScheduler(FALSE)}
    /\ oit = None
    /\ pc = "idle"
    /\ runs = 0
    /\ submitted = << >>
    /\ last_select = None
    /\ hook_calls = << >>
    /\ history = NoHistory

(* _accept_request of a new request: on_request_arrival, then waiting.append. *)
(* The record of a select call is kept until the next hook call.            *)
SchedArrival ==
    /\ NextId < NumRequests
    /\ \E user \in Users, c \in SchedRequestChoices :
          LET r == NextId
              w == [World EXCEPT
                       !.requests = Extend(requests, r,
                                           Request(user, Toy, NumRequests + r, c[1],
                                                   c[2][1], c[2][2], 1, 0)),
                       !.last_select = None]
          IN  Commit(accept_request(w, r))
    /\ UNCHANGED <<pc, runs>>

(* The requests select_next_requests has returned: the engine emits events  *)
(* for these only                                                           *)
Released ==
    {r \in DOMAIN requests :
        /\ r \notin Range(sim.waiting)
        /\ \A i \in DOMAIN interaction :
              \A k \in 1..Len(interaction[i].requests) :
                  interaction[i].requests[k] = r => k <= interaction[i].next_index}

SchedPrefill ==
    /\ scheduler.kind # "FCFS"
    /\ Len(hook_calls) < MaxHookCalls
    /\ \E r \in Released : scheduler' = on_prefill_added(scheduler, requests[r])
    /\ hook_calls' = Append(hook_calls, "on_prefill_added")
    /\ last_select' = None
    /\ UNCHANGED <<requests, interaction, engine, events, sim, oit, pc, runs, submitted, history>>

SchedDecode ==
    /\ scheduler.kind # "FCFS"
    /\ Len(hook_calls) < MaxHookCalls
    /\ \E r1, r2 \in Released :
          \E served \in {<<r1>>} \cup (IF r1 < r2 THEN {<<r1, r2>>} ELSE {}) :
             scheduler' = on_decode_iteration(scheduler, requests, served)
    /\ hook_calls' = Append(hook_calls, "on_decode_iteration")
    /\ last_select' = None
    /\ UNCHANGED <<requests, interaction, engine, events, sim, oit, pc, runs, submitted, history>>

SelectCall(kv_tokens, kv_capacity, max_batch) ==
    Bind(select_next_requests(scheduler, sim.waiting, interaction, sim.interactions, requests,
                              kv_tokens, kv_capacity, max_batch), LAMBDA sel :
        /\ sim' = [sim EXCEPT !.waiting = sel.waiting]
        /\ interaction' = sel.interaction
        /\ scheduler' = sel.scheduler
        /\ last_select' = Some([waiting |-> sim.waiting,
                                kv_tokens_used |-> kv_tokens,
                                kv_tokens_capacity |-> kv_capacity,
                                max_to_release |-> max_batch,
                                selected |-> sel.selected]))

(* One select call per tick: an arrival or an engine event comes before   *)
(* the next one                                                             *)
SchedSelect ==
    /\ IsNone(last_select)
    /\ \E c \in SchedCallChoices : SelectCall(c[1], MaxKv, c[2])
    /\ UNCHANGED <<requests, engine, events, oit, pc, runs, submitted, hook_calls, history>>

SchedNext == SchedArrival \/ SubmitTwoStage \/ SchedPrefill \/ SchedDecode \/ SchedSelect

SchedSpec == SchedInit /\ [][SchedNext]_vars

----------------------------------------------------------------------------
(* BacklogSpec: run() on a WSC Simulator to which two users have each      *)
(* submitted Backlog identical single-stage interactions                   *)

Backlog == 2

(* The orders in which the two users' interactions were submitted *)
BacklogOrders ==
    {order \in [1..(2 * Backlog) -> Users] :
        \A u \in Users : Cardinality({k \in 1..(2 * Backlog) : order[k] = u}) = Backlog}

(* The objects after Simulator.__init__ *)
NewWorld(kv_capacity, max_batch, sched) ==
    [requests |-> << >>, interaction |-> << >>,
     engine |-> VLLMEngineSimulator(kv_capacity, max_batch, DefaultChunkSize),
     events |-> << >>, sim |-> Simulator(kv_capacity, max_batch, MaxTime),
     scheduler |-> sched, oit |-> None, submitted |-> << >>, last_select |-> None,
     hook_calls |-> << >>, history |-> NoHistory]

(* submit_interaction of a new single-stage interaction of the user *)
SubmitSingle(w, user, prompt, out) ==
    Bind(Cardinality(DOMAIN w.requests), LAMBDA r :
    Bind(Cardinality(DOMAIN w.interaction), LAMBDA i :
        submit_interaction(
            [w EXCEPT !.requests = Extend(@, r, Request(user, Toy, i, USER_PROMPT,
                                                        prompt[1], prompt[2], out, 0)),
                      !.interaction = Extend(@, i, Interaction(<<r>>))], i)))

RECURSIVE SubmitBacklog(_, _, _, _)
SubmitBacklog(w, order, prompt, out) ==
    IF order = << >> THEN w
    ELSE SubmitBacklog(SubmitSingle(w, Head(order), prompt, out), Tail(order), prompt, out)

BacklogInit ==
    /\ \E b \in 1..MaxBatchTokens, lift \in BOOLEAN, order \in BacklogOrders :
       \E prompt \in SimPromptChoices, out \in OutputChoices :
          Bind(SubmitBacklog(NewWorld(DefaultKvCapacity, b, FairServeScheduler(lift)),
                             order, prompt, out), LAMBDA w :
              /\ requests = w.requests
              /\ interaction = w.interaction
              /\ engine = w.engine
              /\ events = w.events
              /\ sim = w.sim
              /\ scheduler = w.scheduler
              /\ oit = w.oit
              /\ submitted = w.submitted
              /\ last_select = w.last_select
              /\ hook_calls = w.hook_calls
              /\ history = w.history)
    /\ pc = "idle"
    /\ runs = 0

BacklogNext == RunCall \/ RunTick \/ RunReturn

BacklogSpec == BacklogInit /\ [][BacklogNext]_vars

----------------------------------------------------------------------------
(* Observations shared by the properties *)

EventsOfType(evs, type) == SelectSeq(evs, LAMBDA ev : ev.event_type = type)

Ids(evs) == [k \in 1..Len(evs) |-> evs[k].request_id]

InPrefill(e, r) == ~IsNone(e.active_prefill) /\ Val(e.active_prefill).request = r

InEngine(e, r) ==
    r \in Range(e.pending_prefill) \/ InPrefill(e, r) \/ r \in Range(e.active_decodes)

Started(r) == ~IsNone(requests[r].start_time)

IndexOf(seq, x) == CHOOSE k \in 1..Len(seq) : seq[k] = x

----------------------------------------------------------------------------
(* Engine properties, checked under EngineSpec *)

(* C1: after any sequence of submit_request and step() calls,              *)
(* 0 <= kv_tokens <= max_kv_tokens.                                         *)
C1_KvWithinCapacity == 0 <= engine.kv_tokens /\ engine.kv_tokens <= engine.max_kv_tokens

CapacityBlocked(r) ==
    /\ r \in DOMAIN requests
    /\ engine.pending_prefill # << >>
    /\ Head(engine.pending_prefill) = r
    /\ PromptTokens(requests[r]) > 0
    /\ PromptTokens(requests[r]) <= engine.max_kv_tokens
    /\ engine.kv_tokens + PromptTokens(requests[r]) > engine.max_kv_tokens

ResidentWork ==
    ~IsNone(engine.active_prefill) \/ DecodeCandidates(engine, requests) # << >>

C8_BlockedHeadProgresses ==
    \A r \in 0..(NumRequests - 1) : CapacityBlocked(r) => ResidentWork

(* C9: requests begin prefill in the order they were submitted; a head     *)
(* that cannot start stays, nothing behind it starts, and a request leaves *)
(* pending_prefill only by becoming the active prefill.                    *)
StartedInSubmitOrder ==
    \A i, j \in 1..Len(submitted) :
        (i < j /\ Started(submitted[j])) =>
            /\ Started(submitted[i])
            /\ Val(requests[submitted[i]].start_time) < Val(requests[submitted[j]].start_time)

HeadCannotStart ==
    /\ engine.pending_prefill # << >>
    /\ \/ ~IsNone(engine.active_prefill)
       \/ engine.kv_tokens + PromptTokens(requests[Head(engine.pending_prefill)]) > engine.max_kv_tokens

LeavesOnlyByStarting ==
    \/ engine'.pending_prefill = engine.pending_prefill
    \/ /\ engine.pending_prefill # << >>
       /\ engine'.pending_prefill = Tail(engine.pending_prefill)
       /\ ~HeadCannotStart
       /\ LET r == Head(engine.pending_prefill)
          IN  /\ ~Started(r)
              /\ ~IsNone(requests'[r].start_time)
              /\ InPrefill(engine', r) \/ r \in Range(engine'.active_decodes)
              /\ \E k \in 1..Len(events') :
                    /\ events'[k].event_type = "PREFILL_CHUNK_STARTED"
                    /\ events'[k].request_id = r
                    /\ events'[k].chunk_id = 0

C9_EngineFifo ==
    /\ []StartedInSubmitOrder
    /\ [][EngineStep => LeavesOnlyByStarting]_vars
    /\ [][EngineSubmit => engine'.pending_prefill = Append(engine.pending_prefill, NextId)]_vars

(* A head blocked for capacity with a smaller request that would fit       *)
(* waiting behind it, after a step that started nothing.                   *)
C9_Witness ==
    /\ Len(engine.pending_prefill) >= 2
    /\ IsNone(engine.active_prefill)
    /\ engine.kv_tokens + PromptTokens(requests[engine.pending_prefill[1]]) > engine.max_kv_tokens
    /\ PromptTokens(requests[engine.pending_prefill[2]]) > 0
    /\ engine.kv_tokens + PromptTokens(requests[engine.pending_prefill[2]]) <= engine.max_kv_tokens
    /\ engine.time > 0
    /\ events # << >>
    /\ EventsOfType(events, "PREFILL_CHUNK_STARTED") = << >>

(* C10: at most one request has started prefill without finishing it, and  *)
(* a step emits at most one PREFILL_CHUNK_STARTED event.                    *)
InFlightPrefills ==
    {r \in DOMAIN requests :
        /\ Started(r)
        /\ r \notin Range(engine.active_decodes)
        /\ r \notin Range(engine.completed)}

C10_OnePrefillInFlight ==
    /\ Cardinality(InFlightPrefills) <= 1
    /\ Len(EventsOfType(events, "PREFILL_CHUNK_STARTED")) <= 1

(* A step with budget to spare and requests pending that still ran one     *)
(* chunk only, leaving its request in prefill.                              *)
C10_Witness ==
    /\ Cardinality(InFlightPrefills) = 1
    /\ engine.pending_prefill # << >>
    /\ Len(EventsOfType(events, "PREFILL_CHUNK_STARTED")) = 1
    /\ Len(EventsOfType(events, "DECODE_STEP")) = 0
    /\ engine.max_num_batched_tokens >= 2

----------------------------------------------------------------------------
(* Simulator properties, checked under Spec and InjectSpec *)

Completed(r) == r \in Range(engine.completed)

Recorded(r) == r \in Range(sim.completed_requests)

Waiting(r) == r \in Range(sim.waiting)

Unreleased(r) ==
    \E i \in DOMAIN interaction :
        \E k \in 1..Len(interaction[i].requests) :
            interaction[i].requests[k] = r /\ k > interaction[i].next_index

RECURSIVE PromptSum(_)
PromptSum(seq) ==
    IF seq = << >> THEN 0 ELSE PromptTokens(requests[Head(seq)]) + PromptSum(Tail(seq))

C3_ContinuationNeverThrottled ==
    \A r \in DOMAIN requests :
        requests[r].stage # USER_PROMPT =>
            /\ ~requests[r].throttled
            /\ r \notin Range(sim.throttled_requests)
            /\ ~IsNone(oit) =>
                  \A kv_usage \in 0..(MaxKv + 1), running \in 0..NumRequests :
                      ~should_throttle(Val(oit), requests[r], kv_usage, running).throttle

(* An AGENT_1 request injected under constant overload while its user's    *)
(* window already held user_rpm_limit arrivals, and accepted all the same. *)
C3_Witness ==
    /\ ~IsNone(oit)
    /\ Val(oit).max_batch = 0
    /\ \E r, q \in DOMAIN requests :
          /\ q < r
          /\ requests[r].stage = AGENT_1
          /\ requests[r].interaction_id >= NumRequests
          /\ requests[q].interaction_id >= NumRequests
          /\ requests[q].user = requests[r].user
          /\ requests[q].arrival_time > requests[r].arrival_time - Val(oit).window
          /\ requests[r].application.user_rpm_limit = 1
          /\ q \in sim.id_to_request
          /\ r \in sim.id_to_request

(* C4: every request handed to the orchestrator is in exactly one of: not  *)
(* yet released by its interaction, the waiting queue, the engine,         *)
(* completed_requests, throttled_requests; and every request the engine    *)
(* completes is recorded in completed_requests.                            *)
Places(r) ==
    {place \in 1..5 :
        \/ place = 1 /\ Unreleased(r)
        \/ place = 2 /\ Waiting(r)
        \/ place = 3 /\ InEngine(engine, r)
        \/ place = 4 /\ Recorded(r)
        \/ place = 5 /\ r \in Range(sim.throttled_requests)}

RunEnded ==
    /\ pc = "idle"
    /\ runs >= 1
    /\ sim.current_tick < sim.max_time
    /\ ~RunCondition(World)

RECURSIVE UnfinishedTokens(_)
UnfinishedTokens(S) ==
    IF S = {} THEN 0
    ELSE LET r == CHOOSE x \in S : TRUE
         IN  PromptTokens(requests[r]) + requests[r].remaining_decode + UnfinishedTokens(S \ {r})

TickWithinLimit == sim.current_tick <= sim.max_time

TickAddsOne ==
    /\ sim.current_tick < sim.max_time
    /\ sim'.current_tick = sim.current_tick + 1

ReturnsWhenDone ==
    /\ sim'.current_tick = sim.current_tick
    /\ sim.current_tick < sim.max_time =>
          /\ sim.waiting = << >>
          /\ ~has_pending_work(engine)
          /\ \A i \in Range(sim.interactions) : interaction[i].complete

----------------------------------------------------------------------------
(* Scheduler properties, checked under SchedSpec *)

(* The list the select call of this step returns *)
Returned == Val(last_select').selected

Without(seq, removed) == SelectSeq(seq, LAMBDA x : x \notin Range(removed))

Continuation(r) == requests[r].stage # USER_PROMPT

WaitingUsers(waiting) == {requests[waiting[k]].user : k \in 1..Len(waiting)}

EarliestOfUser(waiting, r) ==
    /\ r \in Range(waiting)
    /\ \A k \in 1..(IndexOf(waiting, r) - 1) : requests[waiting[k]].user # requests[r].user

(* C11: when a continuation request (stage # USER_PROMPT) is waiting, the  *)
(* first request WSC releases is a continuation request from the waiting   *)
(* queue, and a USER_PROMPT request is released only when no continuation  *)
(* request is waiting.                                                      *)
C11_ContinuationsFirst ==
    [][(SchedSelect /\ scheduler.kind = "WSC") =>
          \A k \in 1..Len(Returned) :
              LET left == Without(sim.waiting, SubSeq(Returned, 1, k - 1))
              IN  (\E q \in Range(left) : Continuation(q)) =>
                      (Returned[k] \in Range(left) /\ Continuation(Returned[k]))]_vars

(* C12: with counter_lift on and some counter populated,                   *)
(* on_request_arrival for user u sets C[u] to max(old C[u], minimum of the *)
(* populated counters) and changes no other counter; otherwise it changes  *)
(* nothing.                                                                 *)
Arrival == Len(sim'.waiting) = Len(sim.waiting) + 1

C12_CounterLift ==
    [][(Arrival /\ scheduler.kind # "FCFS") =>
          LET u == requests'[sim'.waiting[Len(sim'.waiting)]].user
              C == Counters(scheduler)
              D == Counters(scheduler')
          IN  IF scheduler.counter_lift /\ DOMAIN C # {}
              THEN /\ u \in DOMAIN D
                   /\ D[u] = Max2(Get(C, u), SetMin({C[v] : v \in DOMAIN C}))
                   /\ \A v \in DOMAIN C : D[v] >= SetMin({C[x] : x \in DOMAIN C})
                   /\ \A v \in Users \ {u} : (v \in DOMAIN D <=> v \in DOMAIN C) /\ Get(D, v) = Get(C, v)
              ELSE D = C]_vars

(* A user that was never served holds a positive counter equal to the      *)
(* other user's: it was lifted on arrival.                                  *)
C12_Witness ==
    /\ scheduler.kind # "FCFS"
    /\ scheduler.counter_lift
    /\ \E u \in Users :
          /\ \A r \in Released : requests[r].user # u
          /\ \E r \in Range(sim.waiting) : requests[r].user = u
          /\ Get(Counters(scheduler), u) > 0
          /\ \A v \in Users : Get(Counters(scheduler), v) = Get(Counters(scheduler), u)

(* C13: no user's counter ever decreases, whichever hook or select call    *)
(* is made.                                                                 *)
C13_CountersMonotone ==
    [][\A u \in Users : Get(Counters(scheduler'), u) >= Get(Counters(scheduler), u)]_vars

(* A user with a positive counter above the minimum arrives again and      *)
(* keeps its counter.                                                       *)
C13_Witness ==
    /\ scheduler.kind # "FCFS"
    /\ scheduler.counter_lift
    /\ sim.waiting # << >>
    /\ LET u == requests[sim.waiting[Len(sim.waiting)]].user
       IN  /\ \E r \in Released : requests[r].user = u
           /\ \E v \in DOMAIN Counters(scheduler) :
                 Counters(scheduler)[v] < Get(Counters(scheduler), u)

(* C14: every request VTC releases is, when picked, the earliest waiting   *)
(* request of a user whose counter is minimal among the users with a       *)
(* waiting request; it is removed from the queue and the order of the      *)
(* remaining requests is unchanged.                                         *)
C14_VtcPicksMinimalHead ==
    [][(SchedSelect /\ scheduler.kind = "VTC") =>
          /\ \A k \in 1..Len(Returned) :
                LET left == Without(sim.waiting, SubSeq(Returned, 1, k - 1))
                    u == requests[Returned[k]].user
                IN  /\ EarliestOfUser(left, Returned[k])
                    /\ \A v \in WaitingUsers(left) :
                          Get(scheduler.counters, u) <= Get(scheduler.counters, v)
          /\ sim'.waiting = Without(sim.waiting, Returned)]_vars

(* VTC released two requests, the first of them from behind the head of    *)
(* the queue.                                                               *)
C14_Witness ==
    /\ scheduler.kind = "VTC"
    /\ ~IsNone(last_select)
    /\ Len(Val(last_select).selected) = 2
    /\ Val(last_select).selected[1] # Head(Val(last_select).waiting)

(* C15: among the users with waiting requests that share the smallest      *)
(* counter, VTC picks the one with the lexicographically smallest user_id, *)
(* whatever the order of the queue.                                         *)
UserIdOrder == <<"a", "b">>

C15_VtcTieBreak ==
    [][(SchedSelect /\ scheduler.kind = "VTC" /\ Returned # << >>) =>
          LET u == requests[Returned[1]].user
              minimal == {v \in WaitingUsers(sim.waiting) :
                            \A x \in WaitingUsers(sim.waiting) :
                                Get(scheduler.counters, v) <= Get(scheduler.counters, x)}
          IN  \A v \in minimal : IndexOf(UserIdOrder, u) <= IndexOf(UserIdOrder, v)]_vars

(* C16: FCFS returns, and removes from the queue, exactly the longest      *)
(* prefix of the queue of length <= max_to_release whose input + system    *)
(* tokens added to kv_tokens_used stay <= kv_tokens_capacity, a head of 0  *)
(* tokens at a full cache included.                                         *)
FitsAsPrefix(call, n) ==
    /\ n <= Len(call.waiting)
    /\ n <= call.max_to_release
    /\ call.kv_tokens_used + PromptSum(SubSeq(call.waiting, 1, n)) <= call.kv_tokens_capacity

C16_FcfsLongestPrefix ==
    [][(SchedSelect /\ scheduler.kind = "FCFS") =>
          LET call == Val(last_select')
              n == Len(call.selected)
          IN  /\ call.selected = SubSeq(sim.waiting, 1, n)
              /\ sim'.waiting = SubSeq(sim.waiting, n + 1, Len(sim.waiting))
              /\ FitsAsPrefix(call, n)
              /\ ~FitsAsPrefix(call, n + 1)]_vars

(* C18: select_next_requests changes only the scheduler's counter map and  *)
(* removes the returned requests from the waiting queue; interactions,     *)
(* requests and the engine are left as they were.                          *)
C18_SelectFrame ==
    [][SchedSelect =>
          /\ interaction' = interaction
          /\ requests' = requests
          /\ engine' = engine
          /\ Range(Returned) \subseteq Range(sim.waiting)
          /\ sim'.waiting = Without(sim.waiting, Returned)]_vars

----------------------------------------------------------------------------
(* Throttle properties, checked under InjectSpec *)

(* The injected requests that were accepted: inject_requests called        *)
(* record_arrival for each of them                                         *)
RecordedArrivals ==
    {q \in DOMAIN requests : requests[q].interaction_id >= NumRequests /\ q \in sim.id_to_request}

(* How many of the requests S arrived at now - window or later *)
NotOlderThan(S, now, window) ==
    Cardinality({q \in S : requests[q].arrival_time >= now - window})

(* C21: should_throttle(req, kv_usage, running) is true exactly when the   *)
(* OIT is overloaded, req is a USER_PROMPT request, and the recorded       *)
(* arrivals of its user (or application) that are not older than           *)
(* arrival_time - window number at least user_rpm_limit (app_rpm_limit);   *)
(* an arrival recorded exactly window time units earlier still counts.     *)
C21_ThrottleRule ==
    ~IsNone(oit) =>
        \A user \in Users, stage \in {USER_PROMPT, AGENT_1}, t \in ArrivalChoices :
            \A kv_usage \in 0..2, running \in 0..1 :
                t >= LastArrival =>
                    LET req == Request(user, Toy, NumRequests, stage, 1, 1, 1, t)
                        o == Val(oit)
                        of_user == {q \in RecordedArrivals : requests[q].user = user}
                    IN  should_throttle(o, req, kv_usage, running).throttle
                        <=> /\ kv_usage > o.kv_threshold \/ running >= o.max_batch
                            /\ stage = USER_PROMPT
                            /\ \/ NotOlderThan(of_user, t, o.window) >= Toy.user_rpm_limit
                               \/ NotOlderThan(RecordedArrivals, t, o.window) >= Toy.app_rpm_limit

----------------------------------------------------------------------------
(* Fairness of WSC, checked under BacklogSpec *)

RECURSIVE TokensOf(_)
TokensOf(S) ==
    IF S = {} THEN 0
    ELSE LET r == CHOOSE x \in S : TRUE
         IN  PromptTokens(requests[r]) + requests[r].output_tokens_target + TokensOf(S \ {r})

CompletedTokens(u) ==
    TokensOf({r \in Range(sim.completed_requests) : requests[r].user = u})

----------------------------------------------------------------------------
(* Accounting properties, checked under Spec *)

Count(seq, x) == Cardinality({k \in 1..Len(seq) : seq[k] = x})

CompletedBy(u) == {r \in Range(engine.completed) : requests[r].user = u}

(* w_p * (input + system) + w_q * output_tokens_target of a request under VTC *)
VtcIncrement(r) ==
    scheduler.w_p * PromptTokens(requests[r]) + scheduler.w_q * requests[r].output_tokens_target

----------------------------------------------------------------------------
(* The engine's event protocol, checked under EngineSpec *)

(* The positions <<step, index>> of the logged events of a request *)
EventsOf(r, type) ==
    {pos \in (1..Len(history.event_log)) \X (1..(2 * NumRequests + 2)) :
        /\ pos[2] <= Len(history.event_log[pos[1]])
        /\ history.event_log[pos[1]][pos[2]].request_id = r
        /\ type \in {"any", history.event_log[pos[1]][pos[2]].event_type}}

EventAt(pos) == history.event_log[pos[1]][pos[2]]

Before(p, q) == p[1] < q[1] \/ (p[1] = q[1] /\ p[2] < q[2])

RECURSIVE ChunkLenSum(_)
ChunkLenSum(S) ==
    IF S = {} THEN 0
    ELSE LET pos == CHOOSE x \in S : TRUE IN EventAt(pos).chunk_len + ChunkLenSum(S \ {pos})

PrefillProtocol(r) ==
    LET starts == EventsOf(r, "PREFILL_CHUNK_STARTED")
    IN  /\ {EventAt(pos).chunk_id : pos \in starts} = 0..(Cardinality(starts) - 1)
        /\ \A p, q \in starts : Before(p, q) => EventAt(p).chunk_id < EventAt(q).chunk_id
        /\ ChunkLenSum(starts) = PromptTokens(requests[r])
        /\ \A p \in starts, q \in EventsOf(r, "DECODE_STEP") : Before(p, q)

DecodeProtocol(r) ==
    LET decodes == EventsOf(r, "DECODE_STEP")
    IN  /\ Cardinality(decodes) = requests[r].output_tokens_target
        /\ {EventAt(pos).token_index : pos \in decodes} = 1..requests[r].output_tokens_target
        /\ \A p, q \in decodes :
              /\ Before(p, q) => EventAt(p).token_index < EventAt(q).token_index
              /\ p # q => p[1] # q[1]

CompletionProtocol(r) ==
    LET done == EventsOf(r, "REQUEST_COMPLETED")
    IN  /\ Cardinality(done) = 1
        /\ \A c \in done :
              /\ \E d \in EventsOf(r, "DECODE_STEP") :
                    /\ d[1] = c[1]
                    /\ EventAt(d).token_index = requests[r].output_tokens_target
              /\ \A p \in EventsOf(r, "any") : p = c \/ Before(p, c)

(* C24: for every request the engine has completed, its                    *)
(* PREFILL_CHUNK_STARTED events carry chunk_id 0, 1, 2, ... in order with  *)
(* chunk lengths summing to input + system tokens and all precede its      *)
(* first DECODE_STEP; it has exactly output_tokens_target DECODE_STEP      *)
(* events, token_index 1..output_tokens_target in order, at most one per   *)
(* step; and exactly one REQUEST_COMPLETED, in the step of its last        *)
(* DECODE_STEP, after which no event names it.                              *)
C24_EventProtocol ==
    \A r \in Range(engine.completed) :
        PrefillProtocol(r) /\ DecodeProtocol(r) /\ CompletionProtocol(r)

(* A request completed after two prefill chunks and two decode steps, and  *)
(* the engine stepped again with other work afterwards.                     *)
C24_Witness ==
    \E r \in Range(engine.completed) :
        /\ Cardinality(EventsOf(r, "PREFILL_CHUNK_STARTED")) = 2
        /\ requests[r].output_tokens_target = 2
        /\ \E c \in EventsOf(r, "REQUEST_COMPLETED") : c[1] < Len(history.event_log)

----------------------------------------------------------------------------
(* Engine progress, checked under EngineSpec *)

HeadFits(e) ==
    /\ e.pending_prefill # << >>
    /\ e.kv_tokens + PromptTokens(requests[Head(e.pending_prefill)]) <= e.max_kv_tokens

(* C25: whenever has_pending_work() is true and the head of                *)
(* pending_prefill fits in the free KV, step() returns at least one event; *)
(* so a request with input + system = 0 tokens is started and does not     *)
(* block the requests queued behind it.                                     *)
C25_StepMakesProgress ==
    (has_pending_work(engine) /\ HeadFits(engine)) => step(engine, requests).events # << >>

----------------------------------------------------------------------------
(* run() called again, checked under Spec *)

----------------------------------------------------------------------------
(* The complete flag of an interaction, checked under Spec *)

Finished(r) == Recorded(r) /\ ~InEngine(engine, r) /\ ~Waiting(r)

----------------------------------------------------------------------------
(* The rate bound of the throttle, checked under InjectSpec *)

AcceptedPrompts == {q \in RecordedArrivals : requests[q].stage = USER_PROMPT}

(* How many of the requests S arrived in the interval (t - window, t] *)
ArrivedWithin(S, t, window) ==
    Cardinality({q \in S : t - window < requests[q].arrival_time /\ requests[q].arrival_time <= t})

Throttled(r) == requests[r].throttled \/ r \in Range(sim.throttled_requests)

(* The arrival times of the requests S in the order they were injected *)
RECURSIVE ArrivalTimes(_)
ArrivalTimes(S) ==
    IF S = {} THEN << >>
    ELSE LET last == CHOOSE q \in S : \A x \in S : x <= q
         IN  Append(ArrivalTimes(S \ {last}), requests[last].arrival_time)

IsSuffix(dq, seq) ==
    /\ Len(dq) <= Len(seq)
    /\ dq = SubSeq(seq, Len(seq) - Len(dq) + 1, Len(seq))

====
